---- MODULE Spec2Model ----
(***************************************************************************)
(* State-machine model of src/metrics_snapshot_spider.py                   *)
(* (MetricsSnapshotSpider): listing traversal, detail extraction, the      *)
(* size-triggered batch buffer, the SQLite upsert and the drain in         *)
(* closed().                                                               *)
(*                                                                         *)
(* Python strings are sequences of one-character strings, so that strip(), *)
(* endswith() and concatenation are computed and not assumed.  Python's    *)
(* None is the one-element sequence None, whose element is no character.   *)
(*                                                                         *)
(* The Scrapy engine is the environment: it holds the scheduled requests   *)
(* (pending), downloads one of them in any order, hands the response to    *)
(* the callback, drops a request whose download fails, and calls           *)
(* closed(reason) once, when the run finishes or is shut down.             *)
(***************************************************************************)
EXTENDS Integers, Sequences, FiniteSets, Bags, TLC

VARIABLES
    pc,            \* "Idle", "Validating", "Traversing", "Aborted", "Closed"
    args,          \* constructor arguments not yet consumed: [target_date, batch_size]
    target_date,   \* self.target_date
    batch_size,    \* self.batch_size
    conn,          \* self.conn: "none", "open", "closed"
    schema,        \* the table metrics_snapshot exists in the database file
    journal,       \* journal mode recorded in the database file
    store,         \* committed rows of metrics_snapshot, in rowid order
    work,          \* the rows as the connection sees them (with its open transaction)
    buf,           \* self._buf
    queued,        \* self._queued
    parsed,        \* self._parsed
    pending,       \* bag of requests the engine has scheduled
    exc,           \* exception that left the most recent handler, "none" if none
    log,           \* calls made by closed(), in order
    built,         \* history: the records appended in this run, in order
    failed,        \* history: bag of the codes of the detail requests whose download failed
    store0,        \* history: the committed rows when the process started
    writeFailures, \* history: how many store writes of this run raised
    probe          \* single-call specifications: the call made, [fn, arg, out]

vars == <<pc, args, target_date, batch_size, conn, schema, journal, store, work, buf,
          queued, parsed, pending, exc, log, built, failed, store0,
          writeFailures, probe>>

----------------------------------------------------------------------------
(* Bounds of the model *)

MaxRows == 2
MaxPages == 2
MaxQueued == 3
MaxLen == 3
MaxFaults == 1

----------------------------------------------------------------------------
(* Python values *)

None == <<"<None>">>
Raises == <<"<raise>">>
NA == <<"N", "/", "A">>
Whitespace == {" ", "\t", "\n"}

Truthy(v) == v # None /\ v # <<>>

RECURSIVE LStrip(_)
LStrip(s) == IF s # <<>> /\ Head(s) \in Whitespace THEN LStrip(Tail(s)) ELSE s

RECURSIVE RStrip(_)
RStrip(s) ==
    IF s # <<>> /\ s[Len(s)] \in Whitespace THEN RStrip(SubSeq(s, 1, Len(s) - 1)) ELSE s

Strip(s) == RStrip(LStrip(s))

EndsWith(s, c) == s # <<>> /\ s[Len(s)] = c

----------------------------------------------------------------------------
(* datetime.strptime(target_date, "%Y%m%d"), line 94.  The format is matched  *)
(* as the regular expression \d\d\d\d (1[0-2]|0[1-9]|[1-9])                   *)
(* (3[01]|[12]\d|0[1-9]|[1-9]| [1-9]) from the start of the string, the       *)
(* alternatives tried in that order; text left over after the match, a year   *)
(* 0 and a day the month does not have raise ValueError.                      *)

Digits == {"0", "1", "2", "3", "4", "5", "6", "7", "8", "9"}
NonZeroDigits == Digits \ {"0"}
DigitSeq == <<"0", "1", "2", "3", "4", "5", "6", "7", "8", "9">>

DigitVal(c) == (CHOOSE i \in 1..Len(DigitSeq) : DigitSeq[i] = c) - 1

At(s, i) == IF i <= Len(s) THEN s[i] ELSE ""

RECURSIVE Num(_, _, _)
Num(s, i, n) == IF n = 0 THEN 0 ELSE Num(s, i, n - 1) * 10 + DigitVal(s[i + n - 1])

MonthTwo(s) ==
    \/ At(s, 5) = "1" /\ At(s, 6) \in {"0", "1", "2"}
    \/ At(s, 5) = "0" /\ At(s, 6) \in NonZeroDigits

DayLen(s, i) ==
    IF \/ At(s, i) = "3" /\ At(s, i + 1) \in {"0", "1"}
       \/ At(s, i) \in {"1", "2"} /\ At(s, i + 1) \in Digits
       \/ At(s, i) = "0" /\ At(s, i + 1) \in NonZeroDigits
    THEN 2
    ELSE IF At(s, i) \in NonZeroDigits THEN 1
    ELSE IF At(s, i) = " " /\ At(s, i + 1) \in NonZeroDigits THEN 2
    ELSE 0

StrptimeMatch(s) ==
    IF \E i \in 1..4 : At(s, i) \notin Digits
    THEN [ok |-> FALSE, mlen |-> 0, dlen |-> 0]
    ELSE IF MonthTwo(s) /\ DayLen(s, 7) > 0
    THEN [ok |-> TRUE, mlen |-> 2, dlen |-> DayLen(s, 7)]
    ELSE IF At(s, 5) \in NonZeroDigits /\ DayLen(s, 6) > 0
    THEN [ok |-> TRUE, mlen |-> 1, dlen |-> DayLen(s, 6)]
    ELSE [ok |-> FALSE, mlen |-> 0, dlen |-> 0]

IsLeap(y) == (y % 4 = 0 /\ y % 100 # 0) \/ y % 400 = 0

DaysInMonth(y, m) ==
    IF m = 2 THEN (IF IsLeap(y) THEN 29 ELSE 28)
    ELSE IF m \in {4, 6, 9, 11} THEN 30 ELSE 31

StrptimeOK(s) ==
    LET m == StrptimeMatch(s)
        d0 == 5 + m.mlen
        day == IF At(s, d0) = " " THEN Num(s, d0 + 1, 1) ELSE Num(s, d0, m.dlen)
    IN  /\ m.ok
        /\ Len(s) = 4 + m.mlen + m.dlen
        /\ Num(s, 1, 4) >= 1
        /\ day <= DaysInMonth(Num(s, 1, 4), Num(s, 5, m.mlen))

----------------------------------------------------------------------------
(* Field extraction.  A detail document is a record giving, for each of the *)
(* seven locators of parse_detail, what resp.xpath(xp).get() does: a text,  *)
(* None when nothing matches, or Raises when the evaluation raises.         *)

_get(doc, key) ==
    LET v == doc[key]
    IN  IF v = Raises THEN NA
        ELSE IF Truthy(v) THEN Strip(v) ELSE NA

(* A _with_pct that does not strip its argument. *)
_with_pct_no_strip(s) ==
    LET t == IF Truthy(s) THEN s ELSE <<>>
    IN  IF t = <<>> \/ t = NA THEN NA
        ELSE IF EndsWith(t, "%") THEN t ELSE t \o <<"%">>

(* A _with_pct that appends "%" without looking at the end of the text. *)
_with_pct_always_appends(s) ==
    LET t == Strip(IF Truthy(s) THEN s ELSE <<>>)
    IN  IF t = <<>> \/ t = NA THEN NA ELSE t \o <<"%">>

_with_pct(s) ==
    LET t == Strip(IF Truthy(s) THEN s ELSE <<>>)
    IN  IF t = <<>> \/ t = NA THEN NA
        ELSE IF EndsWith(t, "%") THEN t ELSE t \o <<"%">>

Record(date, code, name, doc) ==
    [target_date    |-> date,
     code           |-> code,
     sector         |-> _get(doc, "category"),
     name           |-> name,
     price_text     |-> _get(doc, "price"),
     pe             |-> _get(doc, "pe"),
     dividend_yield |-> _with_pct(_get(doc, "div_yld")),
     pb             |-> _get(doc, "pb"),
     roe            |-> _with_pct(_get(doc, "roe")),
     earning_yield  |-> _with_pct(_get(doc, "earn_yld"))]

----------------------------------------------------------------------------
(* The table metrics_snapshot: a sequence of rows.  UNIQUE(code, target_date) *)
(* with INSERT OR REPLACE deletes the rows the new row conflicts with and     *)
(* then inserts it.                                                           *)

SameKey(x, r) == x.code = r.code /\ x.target_date = r.target_date

(* A plain INSERT with no uniqueness constraint. *)
InsertPlain(t, r) == Append(t, r)

(* INSERT OR IGNORE: the row already there wins. *)
InsertOrIgnore(t, r) == IF \E i \in DOMAIN t : SameKey(t[i], r) THEN t ELSE Append(t, r)

(* A replace that removes every row of the code, whatever its date. *)
InsertReplacingCode(t, r) == SelectSeq(t, LAMBDA x : x.code # r.code) \o <<r>>

InsertOrReplace(t, r) == SelectSeq(t, LAMBDA x : ~SameKey(x, r)) \o <<r>>

RECURSIVE ExecuteMany(_, _)
ExecuteMany(t, rs) ==
    IF rs = <<>> THEN t ELSE ExecuteMany(InsertOrReplace(t, Head(rs)), Tail(rs))

(* What can go wrong in one _flush after n earlier write failures: nothing,   *)
(* executemany raising after k rows were applied in the open transaction, or *)
(* commit raising.                                                            *)
NoFault == [at |-> "none", k |-> 0]

Faults(b, n) ==
    IF b = <<>> \/ n >= MaxFaults THEN {NoFault}
    ELSE {NoFault, [at |-> "commit", k |-> 0]}
         \cup {[at |-> "executemany", k |-> j] : j \in 0..(Len(b) - 1)}

(* A _flush that clears the buffer whether or not the write succeeded. *)
_flush_always_clears(b, w, st, c, f) ==
    IF b = <<>> THEN [buf |-> b, work |-> w, store |-> st, ok |-> TRUE]
    ELSE IF c # "open" THEN [buf |-> <<>>, work |-> w, store |-> st, ok |-> FALSE]
    ELSE IF f.at = "executemany"
    THEN [buf |-> <<>>, work |-> ExecuteMany(w, SubSeq(b, 1, f.k)), store |-> st,
          ok |-> FALSE]
    ELSE IF f.at = "commit"
    THEN [buf |-> <<>>, work |-> ExecuteMany(w, b), store |-> st, ok |-> FALSE]
    ELSE [buf |-> <<>>, work |-> ExecuteMany(w, b), store |-> ExecuteMany(w, b), ok |-> TRUE]

(* _flush on buffer b, connection view w, committed rows st and connection *)
(* state c, lines 163-174.  On a connection that is not open executemany   *)
(* raises at once.  The buffer is cleared only after commit returned.      *)
_flush(b, w, st, c, f) ==
    IF b = <<>>
    THEN [buf |-> b, work |-> w, store |-> st, ok |-> TRUE]
    ELSE IF c # "open"
    THEN [buf |-> b, work |-> w, store |-> st, ok |-> FALSE]
    ELSE IF f.at = "executemany"
    THEN [buf |-> b, work |-> ExecuteMany(w, SubSeq(b, 1, f.k)), store |-> st, ok |-> FALSE]
    ELSE IF f.at = "commit"
    THEN [buf |-> b, work |-> ExecuteMany(w, b), store |-> st, ok |-> FALSE]
    ELSE [buf |-> <<>>, work |-> ExecuteMany(w, b), store |-> ExecuteMany(w, b), ok |-> TRUE]

(* closed() that releases the connection and never flushes. *)
closed_body_no_flush(b, w, st, c, f, closeOk) ==
    [buf |-> b, store |-> st, work |-> IF closeOk THEN st ELSE w,
     conn |-> IF closeOk THEN "closed" ELSE c, ok |-> TRUE,
     calls |-> <<"conn.close">>]

(* closed() that releases the connection first and flushes afterwards. *)
closed_body_close_first(b, w, st, c, f, closeOk) ==
    LET c1 == IF closeOk THEN "closed" ELSE c
        w1 == IF closeOk THEN st ELSE w
        r == IF b = <<>> THEN [buf |-> b, work |-> w1, store |-> st, ok |-> TRUE]
             ELSE IF c1 # "open" THEN [buf |-> b, work |-> w1, store |-> st, ok |-> FALSE]
             ELSE [buf |-> <<>>, work |-> ExecuteMany(w1, b),
                   store |-> ExecuteMany(w1, b), ok |-> TRUE]
    IN  [buf |-> r.buf, store |-> r.store, work |-> r.work, conn |-> c1, ok |-> r.ok,
         calls |-> <<"conn.close", "_flush">>]

(* closed() without the finally clause: the connection is released only *)
(* when _flush returned.                                                *)
closed_body_no_finally(b, w, st, c, f, closeOk) ==
    LET r == _flush(b, w, st, c, f)
    IN  [buf |-> r.buf,
         store |-> r.store,
         work |-> IF r.ok /\ closeOk THEN r.store ELSE r.work,
         conn |-> IF r.ok /\ closeOk THEN "closed" ELSE c,
         ok |-> r.ok,
         calls |-> IF r.ok THEN <<"_flush", "conn.close">> ELSE <<"_flush">>]

(* The body of closed(), lines 177-183: _flush, then conn.close() in the     *)
(* finally clause whether or not _flush raised; an exception of close() is   *)
(* swallowed.  Closing rolls the open transaction back.  closeOk tells       *)
(* whether conn.close() succeeds.                                            *)
closed_body(b, w, st, c, f, closeOk) ==
    LET r == _flush(b, w, st, c, f)
    IN  [buf |-> r.buf,
         store |-> r.store,
         work |-> IF closeOk THEN r.store ELSE r.work,
         conn |-> IF closeOk THEN "closed" ELSE c,
         ok |-> r.ok,
         calls |-> <<"_flush", "conn.close">>]

----------------------------------------------------------------------------
(* Constructor argument batch_size, lines 52-57.  A Python value is tagged: *)
(* an int, a str or None.                                                   *)

DefaultBatchSize == 50

PyNone == [t |-> "none", n |-> 0, s |-> <<>>]
PyInt(n) == [t |-> "int", n |-> n, s |-> <<>>]
PyStr(s) == [t |-> "str", n |-> 0, s |-> s]

PyTruthy(v) ==
    IF v.t = "int" THEN v.n # 0
    ELSE IF v.t = "str" THEN v.s # <<>>
    ELSE FALSE

(* int(v): an int is itself; a str is stripped and read as an optional sign *)
(* and decimal digits, anything else raises ValueError.                     *)
IntOf(v) ==
    IF v.t = "int" THEN [ok |-> TRUE, n |-> v.n]
    ELSE LET u == Strip(v.s)
             signed == u # <<>> /\ Head(u) \in {"+", "-"}
             d == IF signed THEN Tail(u) ELSE u
         IN  IF v.t = "str" /\ d # <<>> /\ \A i \in 1..Len(d) : d[i] \in Digits
             THEN [ok |-> TRUE,
                   n |-> IF signed /\ Head(u) = "-" THEN 0 - Num(d, 1, Len(d))
                         ELSE Num(d, 1, Len(d))]
             ELSE [ok |-> FALSE, n |-> 0]

(* A batch size that is not checked for being positive. *)
BatchSizeOfUnchecked(v) ==
    IF ~PyTruthy(v) THEN DefaultBatchSize
    ELSE IF ~IntOf(v).ok THEN DefaultBatchSize
    ELSE IntOf(v).n

BatchSizeOf(v) ==
    IF ~PyTruthy(v) THEN DefaultBatchSize
    ELSE IF ~IntOf(v).ok THEN DefaultBatchSize
    ELSE IF IntOf(v).n <= 0 THEN DefaultBatchSize
    ELSE IntOf(v).n

----------------------------------------------------------------------------
(* Inputs: what the caller passes and what the site serves. *)

Date1 == <<"2", "0", "2", "4", "0", "1", "1", "5">>
Date2 == <<"2", "0", "2", "4", "0", "1", "1", "6">>

TargetDates ==
    { None,
      <<>>,
      Date1,
      <<"2", "0", "2", "4", "0", "2", "3", "0">>,
      <<"2", "0", "2", "4", "-", "0", "1", "-", "1", "5">> }

BatchArgs ==
    { PyInt(DefaultBatchSize), PyNone, PyInt(0), PyInt(0 - 1), PyInt(2),
      PyStr(<<"2">>), PyStr(<<"0">>), PyStr(<<"a", "b">>) }

Codes == {<<"c", "1">>, <<"c", "2">>, <<"c", "3">>}
Name == <<"n">>
Href == <<"h">>

(* Listing rows: what the three XPath lookups of lines 104-106 return.  A  *)
(* run of the pipeline meets the rows of SiteRows: a full row for each     *)
(* code and the header row, in which nothing is found.  RowKinds adds the  *)
(* rows in which one value is missing or empty, for the checks of          *)
(* parse_list on a single page.                                            *)
HeaderRow == [code |-> None, name |-> None, href |-> None]

SiteRows == {[code |-> c, name |-> Name, href |-> Href] : c \in Codes} \cup {HeaderRow}

RowKinds ==
    SiteRows
    \cup {[code |-> <<>>, name |-> Name, href |-> Href],
          [code |-> <<"c", "2">>, name |-> <<>>, href |-> Href],
          [code |-> <<"c", "2">>, name |-> None, href |-> Href],
          [code |-> <<"c", "3">>, name |-> Name, href |-> None],
          [code |-> <<"c", "3">>, name |-> Name, href |-> <<>>]}

RECURSIVE SeqsUpTo(_, _)
SeqsUpTo(S, n) ==
    IF n = 0 THEN {<<>>}
    ELSE LET shorter == SeqsUpTo(S, n - 1)
         IN  shorter \cup {Append(q, x) : q \in shorter, x \in S}

SitePages == SeqsUpTo(SiteRows, MaxRows)
Pages == SeqsUpTo(RowKinds, MaxRows)

(* The href of the "Next" link, line 119: absent, empty or a location. *)
SiteNextRefs == {None, <<"p">>}
NextRefs == SiteNextRefs \cup {<<>>}

DocA ==
    [category |-> <<"I", "T">>, price |-> <<" ", "9", " ">>, pe |-> <<"7">>,
     div_yld |-> <<"2">>, pb |-> <<"1">>, roe |-> <<"8", "%">>,
     earn_yld |-> <<" ", "6", " ">>]

DocB ==
    [category |-> None, price |-> <<" ">>, pe |-> Raises,
     div_yld |-> None, pb |-> <<>>, roe |-> <<" ">>,
     earn_yld |-> NA]

DocOld ==
    [category |-> <<"F">>, price |-> <<"3">>, pe |-> <<"4">>,
     div_yld |-> <<"5", "%">>, pb |-> <<"6">>, roe |-> <<"7">>,
     earn_yld |-> <<"8">>]

NoDoc ==
    [category |-> None, price |-> None, pe |-> None, div_yld |-> None,
     pb |-> None, roe |-> None, earn_yld |-> None]

Docs == {DocA, DocB}

(* The call of a single-call specification; none in Spec. *)
NoProbe == [fn |-> "none", arg |-> <<>>, out |-> <<>>]

(* The detail documents the site serves: Docs, or, where the call under    *)
(* study is _with_pct, the document whose percentage fields hold its       *)
(* argument.                                                               *)
ServedDocs ==
    IF probe.fn = "_with_pct"
    THEN {[DocA EXCEPT !.div_yld = probe.arg, !.roe = probe.arg, !.earn_yld = probe.arg]}
    ELSE Docs

(* The database file before the run: new, or left by earlier runs. *)
PriorDbs ==
    { [schema |-> FALSE, journal |-> "delete", rows |-> <<>>],
      [schema |-> TRUE, journal |-> "wal",
       rows |-> <<Record(Date1, <<"c", "1">>, Name, DocOld),
                  Record(Date2, <<"c", "1">>, Name, DocOld)>>] }

----------------------------------------------------------------------------
(* Requests and responses *)

ListRequest(k) ==
    [cb |-> "parse_list", page |-> k, url |-> <<"p">>, code |-> None, name |-> None]

DetailRequest(row) ==
    [cb |-> "parse_detail", page |-> 0, url |-> row.href, code |-> row.code,
     name |-> row.name]

ListResponse(k, rows, next) ==
    [cb |-> "parse_list", page |-> k, code |-> None, name |-> None, rows |-> rows,
     next |-> next, doc |-> NoDoc]

DetailResponse(req, doc) ==
    [cb |-> "parse_detail", page |-> 0, code |-> req.code, name |-> req.name,
     rows |-> <<>>, next |-> None, doc |-> doc]

(* A row test that looks at the code alone. *)
RowOkCodeOnly(row) == Truthy(row.code)

(* Line 108: a row yields a request only if all three values are truthy. *)
RowOk(row) == Truthy(row.code) /\ Truthy(row.name) /\ Truthy(row.href)

(* The detail requests parse_list yields for the rows, lines 102-116. *)
RECURSIVE StubRequests(_)
StubRequests(rows) ==
    IF rows = <<>> THEN <<>>
    ELSE (IF RowOk(Head(rows)) THEN <<DetailRequest(Head(rows))>> ELSE <<>>)
         \o StubRequests(Tail(rows))

(* A "Next" link followed twice. *)
NextRequestsTwice(k, next) ==
    IF Truthy(next) THEN <<ListRequest(k + 1), ListRequest(k + 1)>> ELSE <<>>

(* Lines 119-121: the next listing page is requested only for a truthy href. *)
NextRequests(k, next) == IF Truthy(next) THEN <<ListRequest(k + 1)>> ELSE <<>>

RECURSIVE SeqToBag(_)
SeqToBag(q) == IF q = <<>> THEN EmptyBag ELSE SetToBag({Head(q)}) (+) SeqToBag(Tail(q))

----------------------------------------------------------------------------
(* The state machine *)

Init ==
    /\ pc = "Idle"
    /\ args \in [target_date : TargetDates, batch_size : BatchArgs]
    /\ \E db \in PriorDbs :
          /\ schema = db.schema
          /\ journal = db.journal
          /\ store = db.rows
          /\ work = db.rows
          /\ store0 = db.rows
    /\ target_date = None
    /\ batch_size = 0
    /\ conn = "none"
    /\ buf = <<>>
    /\ queued = 0
    /\ parsed = 0
    /\ pending = EmptyBag
    /\ exc = "none"
    /\ log = <<>>
    /\ built = <<>>
    /\ failed = EmptyBag
    /\ writeFailures = 0
    /\ probe = NoProbe

(* __init__, lines 45-69: the arguments are stored, the database is opened, *)
(* put in WAL mode and given its table (_init_db, CREATE TABLE IF NOT       *)
(* EXISTS), the buffer and the counters are created.                        *)
__init__ ==
    /\ pc = "Idle"
    /\ target_date' = args.target_date
    /\ batch_size' = BatchSizeOf(args.batch_size)
    /\ args' = [target_date |-> None, batch_size |-> PyNone]
    /\ conn' = "open"
    /\ journal' = "wal"
    /\ schema' = TRUE
    /\ work' = store
    /\ buf' = <<>>
    /\ queued' = 0
    /\ parsed' = 0
    /\ pc' = "Validating"
    /\ UNCHANGED <<store, pending, exc, log, built, failed, store0,
                   writeFailures, probe>>

(* start_requests, lines 91-96: ValueError for a falsy or unparsable        *)
(* target_date, else the request of the first listing page.                 *)
start_requests ==
    /\ pc = "Validating"
    /\ IF ~Truthy(target_date) \/ ~StrptimeOK(target_date)
       THEN /\ pc' = "Aborted"
            /\ exc' = "ValueError"
            /\ UNCHANGED pending
       ELSE /\ pc' = "Traversing"
            /\ exc' = "none"
            /\ pending' = SetToBag({ListRequest(1)})
    /\ UNCHANGED <<args, target_date, batch_size, conn, schema, journal, store, work,
                   buf, queued, parsed, log, built, failed, store0,
                   writeFailures, probe>>

(* A parse_list that counts every row of the page, stub or not. *)
ParseListBodyCountsRows(resp, pend) ==
    /\ queued' = queued + Len(resp.rows)
    /\ pending' = pend (+) SeqToBag(StubRequests(resp.rows)
                                    \o NextRequests(resp.page, resp.next))
    /\ exc' = "none"
    /\ UNCHANGED <<pc, args, target_date, batch_size, conn, schema, journal, store, work,
                   buf, parsed, log, built, failed, store0, writeFailures>>

(* The body of parse_list, lines 99-121, on response resp, with pend the   *)
(* requests scheduled when it runs.                                        *)
ParseListBody(resp, pend) ==
    /\ queued' = queued + Len(StubRequests(resp.rows))
    /\ pending' = pend (+) SeqToBag(StubRequests(resp.rows)
                                    \o NextRequests(resp.page, resp.next))
    /\ exc' = "none"
    /\ UNCHANGED <<pc, args, target_date, batch_size, conn, schema, journal, store, work,
                   buf, parsed, log, built, failed, store0, writeFailures>>

(* A threshold test that lets the buffer grow one record too far. *)
BufferFullLate(b, n) == Len(b) > n

(* Line 143: the buffer has reached the batch size. *)
BufferFull(b, n) == Len(b) >= n

(* The body of parse_detail, lines 124-147, on response resp: the record is *)
(* appended and counted, then _flush runs if the buffer has reached         *)
(* batch_size; what _flush raises leaves the callback.                      *)
ParseDetailBody(resp, pend) ==
    /\ LET r == Record(target_date, resp.code, resp.name, resp.doc)
           b == Append(buf, r)
       IN  /\ built' = Append(built, r)
           /\ parsed' = parsed + 1
           /\ IF BufferFull(b, batch_size)
              THEN \E f \in Faults(b, writeFailures) :
                      LET res == _flush(b, work, store, conn, f)
                      IN  /\ buf' = res.buf
                          /\ work' = res.work
                          /\ store' = res.store
                          /\ exc' = IF res.ok THEN "none" ELSE "sqlite3.Error"
                          /\ writeFailures' = writeFailures + (IF res.ok THEN 0 ELSE 1)
              ELSE /\ buf' = b
                   /\ exc' = "none"
                   /\ UNCHANGED <<work, store, writeFailures>>
    /\ pending' = pend
    /\ UNCHANGED <<pc, args, target_date, batch_size, conn, schema, journal, queued,
                   log, failed, store0>>

(* The engine downloads a scheduled listing request and parse_list handles *)
(* the page the site serves.                                               *)
parse_list ==
    /\ pc = "Traversing"
    /\ \E req \in BagToSet(pending), rows \in SitePages, next \in SiteNextRefs :
          /\ req.cb = "parse_list"
          /\ queued + Len(StubRequests(rows)) <= MaxQueued
          /\ Truthy(next) => req.page < MaxPages
          /\ ParseListBody(ListResponse(req.page, rows, next),
                           pending (-) SetToBag({req}))
    /\ UNCHANGED probe

(* The engine downloads a scheduled detail request and parse_detail handles *)
(* the document the site serves.                                            *)
parse_detail ==
    /\ pc = "Traversing"
    /\ \E req \in BagToSet(pending), doc \in ServedDocs :
          /\ req.cb = "parse_detail"
          /\ ParseDetailBody(DetailResponse(req, doc), pending (-) SetToBag({req}))
    /\ UNCHANGED probe

(* A download fails for good: the request is dropped, no callback runs. *)
DownloadFails ==
    /\ pc = "Traversing"
    /\ \E req \in BagToSet(pending) :
          /\ pending' = pending (-) SetToBag({req})
          /\ failed' = IF req.cb = "parse_detail" THEN failed (+) SetToBag({req.code})
                        ELSE failed
    /\ UNCHANGED <<pc, args, target_date, batch_size, conn, schema, journal, store, work,
                   buf, queued, parsed, exc, log, built, store0,
                   writeFailures, probe>>

(* closed(reason), lines 176-184.  The engine calls it once, when no        *)
(* callback is running: when nothing is scheduled any more (the run is      *)
(* finished) or at any earlier moment (the run is shut down, and what is    *)
(* still scheduled is never downloaded).  The reason is only logged.        *)
closed ==
    /\ pc \in {"Validating", "Traversing", "Aborted"}
    /\ \E f \in Faults(buf, writeFailures), closeOk \in BOOLEAN :
          LET res == closed_body(buf, work, store, conn, f, closeOk)
          IN  /\ buf' = res.buf
              /\ work' = res.work
              /\ store' = res.store
              /\ conn' = res.conn
              /\ log' = log \o res.calls
              /\ exc' = IF res.ok THEN "none" ELSE "sqlite3.Error"
              /\ writeFailures' = writeFailures + (IF res.ok THEN 0 ELSE 1)
    /\ pc' = "Closed"
    /\ UNCHANGED <<args, target_date, batch_size, schema, journal, queued, parsed,
                   pending, built, failed, store0, probe>>

Next ==
    \/ __init__
    \/ start_requests
    \/ parse_list
    \/ parse_detail
    \/ DownloadFails
    \/ closed

Spec == Init /\ [][Next]_vars

(* A run under a fair engine: the constructor and start_requests are run,   *)
(* while requests are scheduled one of them is eventually answered (its     *)
(* callback runs, or its download fails), and closed() is called once the   *)
(* engine is idle: nothing is scheduled any more.  A shutdown while         *)
(* requests are scheduled may happen and need not.                          *)
Idle == pending = EmptyBag

(* A run for a valid date with batch_size 2, on a new database. *)
InitValid ==
    /\ Init
    /\ args = [target_date |-> Date1, batch_size |-> PyInt(2)]
    /\ store0 = <<>>

FairSpec ==
    /\ InitValid
    /\ [][Next]_vars
    /\ WF_vars(__init__ \/ start_requests)
    /\ WF_vars(DownloadFails \/ parse_list \/ parse_detail)
    /\ WF_vars(Idle /\ closed)

----------------------------------------------------------------------------
(* Single-call specifications.  Each starts from a state of a run in which *)
(* one call is about to be made with an argument drawn from a bounded set, *)
(* kept in probe.arg; the call is made, probe.out records that, and the    *)
(* run goes on.                                                            *)

(* A run for Date1 that has scheduled the requests pend, q of them detail *)
(* requests, and has built nothing yet.                                   *)
MidRun(pend, q, n) ==
    /\ pc = "Traversing"
    /\ args = [target_date |-> None, batch_size |-> PyNone]
    /\ target_date = Date1
    /\ batch_size = n
    /\ conn = "open"
    /\ schema = TRUE
    /\ journal = "wal"
    /\ store = <<>>
    /\ work = <<>>
    /\ store0 = <<>>
    /\ buf = <<>>
    /\ queued = q
    /\ parsed = 0
    /\ pending = pend
    /\ exc = "none"
    /\ log = <<>>
    /\ built = <<>>
    /\ failed = EmptyBag
    /\ writeFailures = 0

(* parse_list on one page: the state after start_requests, the first page *)
(* being any sequence of at most MaxRows rows of RowKinds with any "Next" *)
(* reference.                                                             *)
InitList ==
    /\ MidRun(SetToBag({ListRequest(1)}), 0, 2)
    /\ \E rows \in Pages, next \in NextRefs :
          probe = [fn |-> "parse_list", arg |-> ListResponse(1, rows, next), out |-> <<>>]

CallParseList ==
    /\ pc = "Traversing"
    /\ probe.fn = "parse_list"
    /\ probe.out = <<>>
    /\ ListRequest(probe.arg.page) \in BagToSet(pending)
    /\ ParseListBody(probe.arg, pending (-) SetToBag({ListRequest(probe.arg.page)}))
    /\ probe' = [probe EXCEPT !.out = <<"done">>]

NextList ==
    \/ CallParseList
    \/ parse_detail
    \/ DownloadFails
    \/ closed

SpecList == InitList /\ [][NextList]_vars

(* _with_pct on one text: any text of at most MaxLen characters of      *)
(* PctChars, or None.  The run has one detail request scheduled, whose  *)
(* document holds the text in its three percentage fields.              *)
PctChars == {" ", "%", "5", "N", "/", "A"}

PctInputs == SeqsUpTo(PctChars, MaxLen) \cup {None}

InitPct ==
    /\ MidRun(SetToBag({DetailRequest([code |-> <<"c", "1">>, name |-> Name,
                                       href |-> Href])}), 1, 1)
    /\ \E s \in PctInputs : probe = [fn |-> "_with_pct", arg |-> s, out |-> <<>>]

(* _with_pct applied to the text, then to its own result. *)
CallWithPct ==
    /\ probe.fn = "_with_pct"
    /\ Len(probe.out) < 2
    /\ probe' = [probe EXCEPT !.out =
                    Append(@, _with_pct(IF @ = <<>> THEN probe.arg ELSE @[Len(@)]))]
    /\ UNCHANGED <<pc, args, target_date, batch_size, conn, schema, journal, store, work,
                   buf, queued, parsed, pending, exc, log, built, failed, store0,
                   writeFailures>>

NextPct ==
    \/ CallWithPct
    \/ parse_detail
    \/ DownloadFails
    \/ closed

SpecPct == InitPct /\ [][NextPct]_vars

(* The constructor on one batch_size argument: a run for Date1 on a new   *)
(* database, the argument being any value of BatchInputs, kept in        *)
(* probe.arg.                                                            *)
BatchInputs ==
    {PyInt(n) : n \in {0 - 1, 0, 2, DefaultBatchSize}}
    \cup {PyNone}
    \cup {PyStr(s) : s \in {<<>>, <<"2">>, <<"0">>, <<"a", "b">>, <<"-", "1">>,
                            <<" ", "2", " ">>, <<"+", "2">>, <<"2", "a">>}}

InitBatch ==
    /\ pc = "Idle"
    /\ args \in [target_date : {Date1}, batch_size : BatchInputs]
    /\ probe = [fn |-> "__init__", arg |-> args.batch_size, out |-> <<>>]
    /\ schema = FALSE
    /\ journal = "delete"
    /\ store = <<>>
    /\ work = <<>>
    /\ store0 = <<>>
    /\ target_date = None
    /\ batch_size = 0
    /\ conn = "none"
    /\ buf = <<>>
    /\ queued = 0
    /\ parsed = 0
    /\ pending = EmptyBag
    /\ exc = "none"
    /\ log = <<>>
    /\ built = <<>>
    /\ failed = EmptyBag
    /\ writeFailures = 0

(* Construction, validation, the listing traversal and the shutdown. *)
NextBatch ==
    \/ __init__
    \/ start_requests
    \/ parse_list
    \/ DownloadFails
    \/ closed

SpecBatch == InitBatch /\ [][NextBatch]_vars

----------------------------------------------------------------------------
(* Vocabulary of the properties *)

RowSet(q) == {q[i] : i \in DOMAIN q}
KeyOf(r) == <<r.code, r.target_date>>
Keys(q) == {KeyOf(q[i]) : i \in DOMAIN q}
DistinctCodes(q) == \A i, j \in DOMAIN q : q[i].code = q[j].code => i = j
UniqueKeys(q) == \A i, j \in DOMAIN q : SameKey(q[i], q[j]) => i = j
RowsFor(t, q) == {i \in DOMAIN t : KeyOf(t[i]) \in Keys(q)}
DrainCalls == <<"_flush", "conn.close">>

----------------------------------------------------------------------------
(* C1. Drain guarantee: once closed() has run, on a normal end or on a       *)
(* shutdown, after appends of records with distinct codes and with no store  *)
(* write failure, the store holds as many rows for this run's                *)
(* (code, target_date) keys as records were built, also when fewer than      *)
(* batch_size records were pending at the end.                               *)
C1_DrainGuarantee ==
    (pc = "Closed" /\ writeFailures = 0 /\ DistinctCodes(built))
        => Cardinality(RowsFor(store, built)) = parsed

(* A shut-down run of three records with batch_size 2: the third record was *)
(* pending when closed() ran, requests were still scheduled.                *)
C1_Witness ==
    /\ pc = "Closed"
    /\ batch_size = 2
    /\ parsed = 3
    /\ writeFailures = 0
    /\ DistinctCodes(built)
    /\ buf = <<>>
    /\ Cardinality(RowsFor(store, built)) = 3

(* C2. On every way to the end (traversal exhausted, shutdown while          *)
(* traversing, shutdown or configuration error while validating) the drain   *)
(* runs once: closed() calls _flush first and conn.close() after it, the     *)
(* connection is never closed before that, and neither call is skipped.      *)
C2_DrainOnce ==
    /\ pc = "Closed" => log = DrainCalls
    /\ pc # "Closed" => log = <<>> /\ conn # "closed"
    /\ (pc = "Closed" /\ writeFailures = 0) => buf = <<>>

(* A run shut down while requests were scheduled, with a record pending:  *)
(* it was flushed and the connection then closed.                         *)
C2_Witness ==
    /\ pc = "Closed"
    /\ pending # EmptyBag
    /\ log = DrainCalls
    /\ conn = "closed"
    /\ parsed = 1
    /\ batch_size = 2
    /\ buf = <<>>
    /\ built[1] \in RowSet(store)

(* C3. Buffer threshold: with batch_size = N, before closed() and with no   *)
(* write failure, after exactly N appends the buffer is empty and the store *)
(* has received exactly those N records; after fewer than N appends the     *)
(* store has received nothing from this run and the buffer holds all the    *)
(* records appended.                                                        *)
C3_BufferThreshold ==
    (pc = "Traversing" /\ writeFailures = 0)
        => /\ parsed = batch_size
                => /\ buf = <<>>
                   /\ store = ExecuteMany(store0, built)
                   /\ Keys(built) \subseteq Keys(store)
                   /\ DistinctCodes(built)
                        => /\ RowSet(built) \subseteq RowSet(store)
                           /\ Cardinality(RowsFor(store, built)) = batch_size
           /\ parsed < batch_size
                => /\ buf = built
                   /\ Len(buf) = parsed
                   /\ store = store0

(* Two records with distinct codes appended with batch_size 2: both are in *)
(* the store, the buffer is empty, closed() has not run.                   *)
C3_Witness ==
    /\ pc = "Traversing"
    /\ batch_size = 2
    /\ parsed = 2
    /\ writeFailures = 0
    /\ DistinctCodes(built)
    /\ buf = <<>>
    /\ RowSet(built) \subseteq RowSet(store)

(* C4. _flush is atomic towards the buffer: a step in which the store write *)
(* (executemany or commit) fails leaves every pending record in the buffer  *)
(* and the committed rows unchanged; the buffer is emptied only by a step   *)
(* whose write was committed; so every record built is in the buffer or has *)
(* its key in the store.                                                    *)
C4_FlushAtomic ==
    [][LET batch == IF parsed' > parsed THEN Append(buf, built'[Len(built')]) ELSE buf
       IN  /\ writeFailures' > writeFailures => store' = store /\ buf' = batch
           /\ (pc # "Idle" /\ buf' # batch)
                => /\ buf' = <<>>
                   /\ writeFailures' = writeFailures
                   /\ RowSet(batch) \subseteq RowSet(store0) \cup RowSet(built')
                   /\ Keys(batch) \subseteq Keys(store')
           /\ \A j \in DOMAIN built' :
                 built'[j] \in RowSet(buf') \/ KeyOf(built'[j]) \in Keys(store')]_vars

(* After a failed threshold flush: the batch is still pending, nothing of *)
(* it is committed, the connection holds the uncommitted rows.            *)
C4_Witness ==
    /\ pc = "Traversing"
    /\ writeFailures = 1
    /\ exc = "sqlite3.Error"
    /\ batch_size = 2
    /\ Len(buf) = 2
    /\ buf = built
    /\ store = store0
    /\ work # store

(* C5. Configuration error: with target_date absent or malformed the run   *)
(* is aborted before any network or storage activity: no request is        *)
(* scheduled, the store is not opened, no schema or other persistent state *)
(* is created.                                                             *)
C5_ConfigErrorNoActivity ==
    pc = "Aborted"
        => LET db == CHOOSE d \in PriorDbs : d.rows = store0
           IN  /\ pending = EmptyBag
               /\ conn = "none"
               /\ schema = db.schema
               /\ journal = db.journal

(* C6. Idempotent upsert: when the same record was written twice, in one    *)
(* batch or in two successive flushes, the store is what it would be had    *)
(* the earlier of the two writes not been made, and, no later record having *)
(* its key, it holds exactly one row with that key, equal to the record.    *)
RemoveAt(q, j) == SubSeq(q, 1, j - 1) \o SubSeq(q, j + 1, Len(q))

C6_IdempotentUpsert ==
    buf = <<>>
        => \A j, k \in DOMAIN built :
              (j < k /\ built[j] = built[k])
                 => /\ store = ExecuteMany(store0, RemoveAt(built, j))
                    /\ (\A m \in DOMAIN built : m > k => ~SameKey(built[m], built[k]))
                          => /\ Cardinality({i \in DOMAIN store :
                                               SameKey(store[i], built[k])}) = 1
                             /\ built[k] \in RowSet(store)

(* The same record written by the threshold flush and again by the final *)
(* flush, over a row an earlier run left under the same key.             *)
C6_Witness ==
    /\ pc = "Closed"
    /\ batch_size = 2
    /\ parsed = 3
    /\ buf = <<>>
    /\ built[1] = built[3]
    /\ KeyOf(built[1]) \in Keys(store0)
    /\ Cardinality({i \in DOMAIN store : SameKey(store[i], built[1])}) = 1

(* C7. The store never holds two rows with one (code, target_date); every  *)
(* row is, in all its columns, a row of an earlier run or a record of this *)
(* run (nothing is merged); once the buffer is flushed the row of a key is *)
(* the last record built with that key; rows of earlier runs with another  *)
(* key, such as the same code under another target_date, are untouched.    *)
C7_UniqueLastWriteWins ==
    /\ UniqueKeys(store)
    /\ UniqueKeys(work)
    /\ RowSet(store) \subseteq RowSet(store0) \cup RowSet(built)
    /\ buf = <<>>
         => \A k \in DOMAIN built :
               (\A m \in DOMAIN built : m > k => ~SameKey(built[m], built[k]))
                  => built[k] \in RowSet(store)
    /\ \A x \in RowSet(store0) : KeyOf(x) \notin Keys(built) => x \in RowSet(store)

(* A run for Date1 over a store that held code c1 under Date1 and Date2,  *)
(* in which c1 was built twice with different values: the second record   *)
(* is the row, the Date1 row of the earlier run is gone, its Date2 row    *)
(* stays.                                                                 *)
C7_Witness ==
    /\ pc = "Closed"
    /\ Len(store0) = 2
    /\ parsed = 2
    /\ buf = <<>>
    /\ built[1].code = store0[1].code
    /\ built[2].code = store0[1].code
    /\ built[1] # built[2]
    /\ built[2] \in RowSet(store)
    /\ built[1] \notin RowSet(store)
    /\ store0[1] \notin RowSet(store)
    /\ store0[2] \in RowSet(store)
    /\ Len(store) = 2

(* C8 as stated. Detail-fetch failure is local: a stub whose download fails *)
(* yields no record and no store row, and after closed() every stub whose   *)
(* download succeeded has its row in the store.                             *)
Scheduled(cb) ==
    LET S == {x \in BagToSet(pending) : x.cb = cb}
    IN  BagCardinality([x \in S |-> CopiesIn(x, pending)])

FailedOnly == {c \in BagToSet(failed) : \A j \in DOMAIN built : built[j].code # c}

NoRowFromFailure ==
    /\ BagCardinality(failed) + parsed + Scheduled("parse_detail") = queued
    /\ Len(built) = parsed
    /\ RowSet(store) \subseteq RowSet(store0) \cup RowSet(built)
    /\ \A c \in FailedOnly :
          {x \in RowSet(store) : x.code = c} = {x \in RowSet(store0) : x.code = c}

Present(v) == v # None /\ v # <<>>

Complete(row) == Present(row.code) /\ Present(row.name) /\ Present(row.href)

ExpectedRequests(resp) ==
    LET good == SelectSeq(resp.rows, Complete)
    IN  [i \in 1..Len(good) |->
            [cb |-> "parse_detail", page |-> 0, url |-> good[i].href,
             code |-> good[i].code, name |-> good[i].name]]
        \o (IF Present(resp.next) THEN <<ListRequest(resp.page + 1)>> ELSE <<>>)

C9_RowSkipPolicy ==
    [][/\ (probe.out = <<>> /\ probe'.out # <<>>)
            => /\ queued' = queued + Len(SelectSeq(probe.arg.rows, Complete))
               /\ pending' = (pending (-) SetToBag({ListRequest(probe.arg.page)}))
                             (+) SeqToBag(ExpectedRequests(probe.arg))
               /\ parsed' = parsed
               /\ buf' = buf
               /\ built' = built
       /\ \A j \in DOMAIN built' :
             \E i \in DOMAIN probe.arg.rows :
                /\ Complete(probe.arg.rows[i])
                /\ probe.arg.rows[i].code = built'[j].code]_vars

(* parse_list has handled a page whose first row lacks its name and whose *)
(* second row is complete, with a "Next" link: one stub, one detail       *)
(* request, and the request of the next page.                             *)
C9_Witness ==
    /\ probe.fn = "parse_list"
    /\ probe.out # <<>>
    /\ Len(probe.arg.rows) = 2
    /\ probe.arg.rows[1].name = <<>>
    /\ Complete(probe.arg.rows[2])
    /\ Present(probe.arg.next)
    /\ queued = 1
    /\ pending = SetToBag({DetailRequest(probe.arg.rows[2]), ListRequest(2)})

(* C10 as stated. Percentage normalization: for every input other than    *)
(* "N/A" the result of _with_pct ends with "%"; applying _with_pct to its  *)
(* result changes nothing; every record in the buffer or the store has its *)
(* three percentage fields equal to "N/A" or ending with "%".              *)
PctFields(r) == {r.dividend_yield, r.roe, r.earning_yield}

Normalized(v) == v = NA \/ EndsWith(v, "%")

RecordsNormalized ==
    \A r \in RowSet(buf) \cup RowSet(store) \cup RowSet(work) :
       \A v \in PctFields(r) : Normalized(v)

PctIdempotent == Len(probe.out) = 2 => probe.out[2] = probe.out[1]

C10_Original ==
    /\ (probe.out # <<>> /\ probe.arg # NA) => EndsWith(probe.out[1], "%")
    /\ PctIdempotent
    /\ RecordsNormalized

(* C10, amended. The result of _with_pct is "N/A" for None and for every   *)
(* input that, stripped of surrounding whitespace, is empty or "N/A"; for  *)
(* every other input it ends with "%"; the rest as stated.                 *)
C10_PctNormalization ==
    /\ probe.out # <<>>
         => IF probe.arg = None \/ Strip(probe.arg) \in {<<>>, NA}
            THEN probe.out[1] = NA
            ELSE EndsWith(probe.out[1], "%")
    /\ PctIdempotent
    /\ RecordsNormalized

(* The text "5%" between blanks was normalized twice, and the record built *)
(* from a document holding it is in the store.                             *)
C10_Witness ==
    /\ probe.fn = "_with_pct"
    /\ probe.arg = <<" ", "5", " ">>
    /\ probe.out = <<<<"5", "%">>, <<"5", "%">>>>
    /\ Len(store) = 1
    /\ store[1].roe = <<"5", "%">>

(* C11. Sentinel completeness: a field whose locator finds nothing, or     *)
(* whose evaluation raises, is "N/A" in the record built; none of the      *)
(* seven extracted attributes of a built record is the empty string or     *)
(* absent.                                                                 *)
ExtractedFields ==
    {"sector", "price_text", "pe", "dividend_yield", "pb", "roe", "earning_yield"}

LocatorOf(fld) ==
    CASE fld = "sector" -> "category"
      [] fld = "price_text" -> "price"
      [] fld = "dividend_yield" -> "div_yld"
      [] fld = "earning_yield" -> "earn_yld"
      [] OTHER -> fld

C11_SentinelCompleteness ==
    /\ \A j \in DOMAIN built : \A fld \in ExtractedFields :
          built[j][fld] # <<>> /\ built[j][fld] # None
    /\ \A d \in ServedDocs : \A fld \in ExtractedFields :
          d[LocatorOf(fld)] \in {None, Raises}
             => Record(Date1, <<"c", "1">>, Name, d)[fld] = NA

(* C12. Threshold configuration: once the pipeline is constructed its      *)
(* batch_size is a positive integer; a positive integer argument (an int,  *)
(* or a string that reads as one) is used as given; zero, a negative       *)
(* number, a text that is no number and an absent argument give the        *)
(* default 50; construction does not fail.                                 *)
ReadsAsInt(v) ==
    \/ v.t = "int"
    \/ /\ v.t = "str"
       /\ LET u == Strip(v.s)
              d == IF u # <<>> /\ u[1] \in {"+", "-"} THEN Tail(u) ELSE u
          IN  d # <<>> /\ \A i \in DOMAIN d : d[i] \in Digits

ValueRead(v) ==
    IF v.t = "int" THEN v.n
    ELSE LET u == Strip(v.s)
         IN  IF u[1] = "-" THEN 0 - Num(Tail(u), 1, Len(u) - 1)
             ELSE IF u[1] = "+" THEN Num(Tail(u), 1, Len(u) - 1)
             ELSE Num(u, 1, Len(u))

C12_ThresholdConfiguration ==
    pc # "Idle" =>
       /\ batch_size \in Nat \ {0}
       /\ IF ReadsAsInt(probe.arg) /\ ValueRead(probe.arg) > 0
          THEN batch_size = ValueRead(probe.arg)
          ELSE batch_size = 50
       /\ conn # "none"
       /\ pc = "Validating" => exc = "none"

(* The run was constructed with the text "ab", and traverses the listing *)
(* with the default.                                                     *)
C12_Witness ==
    /\ probe.fn = "__init__"
    /\ probe.arg = PyStr(<<"a", "b">>)
    /\ batch_size = 50
    /\ pc = "Traversing"
    /\ queued = 1

(* C13 as stated. Page-sequential traversal: the request for listing page *)
(* k+1 is not issued until every detail response of the stubs of page k   *)
(* has been folded or has failed.  While the request of page k+1 is       *)
(* scheduled, page k+1 has not been handled, so every detail request then *)
(* scheduled belongs to a page up to k.                                   *)
C13_Original ==
    \A k \in 1..MaxPages :
       BagIn(ListRequest(k + 1), pending) => Scheduled("parse_detail") = 0

(* C13, amended. The request for listing page k+1 is issued by the         *)
(* parse_list call that handles page k, in the same call as the detail     *)
(* requests of page k's stubs, so that at most one listing request is      *)
(* scheduled at a time and the pages are requested in order; detail        *)
(* results are folded one at a time: a step appends at most one record,    *)
(* and the buffer after it is the buffer before it with that record, or    *)
(* empty after the flush.                                                  *)
CountIn(p, cb) ==
    LET S == {x \in BagToSet(p) : x.cb = cb}
    IN  BagCardinality([x \in S |-> CopiesIn(x, p)])

C13_PageTraversal ==
    [][/\ \A k \in 1..MaxPages :
             (~BagIn(ListRequest(k + 1), pending) /\ BagIn(ListRequest(k + 1), pending'))
                => /\ BagIn(ListRequest(k), pending)
                   /\ ~BagIn(ListRequest(k), pending')
                   /\ CountIn(pending', "parse_detail")
                        = CountIn(pending, "parse_detail") + (queued' - queued)
                   /\ built' = built
       /\ CountIn(pending', "parse_list") <= 1
       /\ \/ built' = built /\ (buf' = buf \/ buf' = <<>>)
          \/ /\ Len(built') = Len(built) + 1
             /\ SubSeq(built', 1, Len(built)) = built
             /\ buf' = Append(buf, built'[Len(built')]) \/ buf' = <<>>]_vars

(* Page 1 has been handled: the request of page 2 is scheduled while a   *)
(* detail request of page 1 is still to be downloaded, another has been  *)
(* folded.                                                               *)
C13_Witness ==
    /\ BagIn(ListRequest(2), pending)
    /\ CountIn(pending, "parse_detail") = 1
    /\ queued = 2
    /\ parsed = 1
    /\ Len(buf) = 1

(* C14. A store write failure during a threshold-triggered flush is fatal *)
(* for the run: once a flush has failed in parse_detail, no further       *)
(* listing page or detail document is handled and no further record is    *)
(* appended; the run goes to closed(); the rows committed by earlier      *)
(* flushes stay in the store unchanged.                                   *)
C14_WriteFailureFatal ==
    [][/\ (pc = "Traversing" /\ writeFailures > 0)
            => /\ parsed' = parsed
               /\ queued' = queued
               /\ built' = built
               /\ CountIn(pending', "parse_list") <= CountIn(pending, "parse_list")
       /\ writeFailures' > writeFailures => store' = store]_vars

(* C15. Bounded exposure: between two callbacks the buffer holds fewer    *)
(* than batch_size records, in every state at most batch_size, also after *)
(* a failed flush; so at most batch_size records are pending, and can be  *)
(* lost, when closed() cannot write them.                                 *)
C15_BoundedExposure ==
    /\ pc \in {"Validating", "Traversing", "Aborted", "Closed"} => Len(buf) <= batch_size
    /\ pc = "Traversing" => Len(buf) < batch_size

(* C16 as stated. Termination: a run that traverses (its target_date was  *)
(* valid), the chain of listing pages being finite and the engine fair,   *)
(* eventually is Closed with an empty buffer; once a page without a       *)
(* "Next" reference has been handled no listing page is requested again.  *)
TraversalStops ==
    [][(pc = "Traversing" /\ CountIn(pending, "parse_list") = 0)
          => CountIn(pending', "parse_list") = 0]_vars

C17_StoreMonotone ==
    [][/\ Keys(store) \subseteq Keys(store')
       /\ \A x \in RowSet(store') : x \in RowSet(store) \/ x \in RowSet(built')
       /\ \A x \in RowSet(store) :
             \/ x \in RowSet(store')
             \/ \E y \in RowSet(store') : SameKey(y, x) /\ y \in RowSet(built')]_vars

(* On a database left by earlier runs, a failed write was followed by a   *)
(* flush: the row of the run's date was replaced, the row of the other    *)
(* date is still there, and a new key was added.                          *)
C17_Witness ==
    /\ Len(store0) = 2
    /\ writeFailures = 1
    /\ Keys(store0) \subseteq Keys(store)
    /\ store0[1] \notin RowSet(store)
    /\ store0[2] \in RowSet(store)
    /\ Cardinality(Keys(store)) > 2

(* C18. Counters: queued and parsed are 0 after construction and never     *)
(* decrease; queued counts the detail requests yielded (those scheduled,   *)
(* failed or folded), parsed the records appended, so parsed <= queued;    *)
(* a step adds to queued the number of detail requests it schedules, and   *)
(* to parsed the one record it appends; closed() changes neither.          *)
C18_Counters ==
    /\ [](/\ pc = "Validating" => (queued = 0 /\ parsed = 0)
          /\ parsed <= queued
          /\ parsed = Len(built)
          /\ queued = CountIn(pending, "parse_detail") + BagCardinality(failed) + parsed)
    /\ [][/\ queued' >= queued
          /\ parsed' >= parsed
          /\ parsed' - parsed = Len(built') - Len(built)
          /\ parsed' - parsed \in {0, 1}
          /\ queued' > queued
               => queued' - queued
                    = CountIn(pending', "parse_detail") - CountIn(pending, "parse_detail")
          /\ pc' = "Closed" => (queued' = queued /\ parsed' = parsed)
          /\ (store' # store /\ pc' # "Closed") => parsed' = parsed + 1]_vars

(* A closed run: three stubs were counted, two records were appended and  *)
(* flushed at the threshold, one download failed.                         *)
C18_Witness ==
    /\ pc = "Closed"
    /\ queued = 3
    /\ parsed = 2
    /\ BagCardinality(failed) = 1
    /\ batch_size = 2
    /\ log = DrainCalls
    /\ Len(store) >= 2

(* C19. When the flush in closed() fails, conn.close() is still called,   *)
(* after the flush; the error that leaves closed() is the flush's, and an *)
(* error of conn.close() never leaves it; the records pending stay in the *)
(* buffer and the store is as it was before closed(); once the connection *)
(* is closed nothing uncommitted is left.                                 *)
C19_CloseOnFailure ==
    [][(pc # "Closed" /\ pc' = "Closed")
          => /\ log' = log \o DrainCalls
             /\ exc' \in {"none", "sqlite3.Error"}
             /\ exc' = "none" <=> buf' = <<>>
             /\ exc' = "sqlite3.Error"
                  => /\ buf # <<>>
                     /\ buf' = buf
                     /\ store' = store
                     /\ conn' \in {"closed", conn}
             /\ conn' = "closed" => work' = store']_vars

(* closed() ran on a buffer holding a record, the write failed, and the  *)
(* connection was closed: the record is not in the store.                *)
C19_Witness ==
    /\ pc = "Closed"
    /\ exc = "sqlite3.Error"
    /\ log = DrainCalls
    /\ conn = "closed"
    /\ Len(buf) = 1
    /\ buf[1] \notin RowSet(store)
    /\ work = store

(* C20 as stated. _with_pct agrees with the reference function on every    *)
(* text: an empty text and "N/A" are returned unchanged, a text ending in  *)
(* "%" is returned unchanged, any other text is returned with one "%"      *)
(* appended.                                                               *)
Reference(s) ==
    IF s = <<>> \/ s = NA THEN s
    ELSE IF s[Len(s)] = "%" THEN s
    ELSE s \o <<"%">>

C20_Original ==
    (probe.fn = "_with_pct" /\ probe.out # <<>> /\ probe.arg # None)
        => probe.out[1] = Reference(probe.arg)

(* C20, amended. _with_pct agrees with the reference function applied to   *)
(* the text stripped of surrounding whitespace, except that a text that is *)
(* empty once stripped, and an absent one, give "N/A".                     *)
C20_AgreesWithReference ==
    (probe.fn = "_with_pct" /\ probe.out # <<>>)
        => probe.out[1] =
              IF probe.arg = None \/ Strip(probe.arg) = <<>> THEN NA
              ELSE Reference(Strip(probe.arg))

(* _with_pct was applied to "5% ": the result is "5%", the text stripped *)
(* and nothing appended.                                                 *)
C20_Witness ==
    /\ probe.fn = "_with_pct"
    /\ probe.arg = <<"5", "%", " ">>
    /\ Len(probe.out) >= 1
    /\ probe.out[1] = <<"5", "%">>

====
